---- MODULE Spec2Model ----
(***************************************************************************)
(* A model of the WhatsApp PDF sender: the worker run App._run_job         *)
(* (src/app.py), the session teardown WhatsAppBot.close                    *)
(* (src/whatsapp_bot.py) and the phone normalizer                          *)
(* _normalize_phone_to_e164_digits (src/csv_loader.py).                    *)
(*                                                                         *)
(* Spec follows one worker run from the Start request to the worker's     *)
(* exit.  Every call into the browser, the file system or the catalog is   *)
(* an environment choice between returning and raising one of the          *)
(* exceptions that call can raise.  SpecPhone applies the normalizer,      *)
(* twice, to a bounded set of raw phone strings.                           *)
(***************************************************************************)
EXTENDS Integers, Sequences, FiniteSets, TLC

\* ------------------------------------------------------------------ bounds
\* Largest catalog (number of client rows) a run is started with.
MaxClients == 61
\* Raw phone strings: any head of at most MaxHeadLen characters of PhoneChars,
\* followed by at most MaxPadLen copies of the digit "5".
MaxHeadLen == 3
MaxPadLen == 15

\* ------------------------------------------------------- program constants
daily_max_sends == 60
max_sessions_per_day == 2
session_remaining_capacity == 30
PhoneMinDigits == 8
PhoneMaxDigits == 15

VARIABLES
  pc,                   \* position of the worker thread in _run_job
  start_btn,            \* "normal" | "disabled"  (App._set_running)
  ui_queue,             \* App._ui_queue: events put by the worker
  clients,              \* len(clients) as returned by load_clients_csv
  total,                \* local total
  daily_success_sends,  \* local daily_success_sends
  sessions_completed,   \* local sessions_completed
  client_idx,           \* local client_idx
  session_target,       \* local session_target
  sent_this_session,    \* local sent_this_session
  pending_exc,          \* exception propagating out of the try body, or "none"
  bot_playwright,       \* WhatsAppBot._playwright is not None
  bot_context,          \* WhatsAppBot._context is not None
  bot_page,             \* WhatsAppBot._page is not None
  close_exc,            \* exception pending inside close(), or "none"
  \* history of the run
  start_returned,       \* bot.start() returned normally
  first_exc,            \* the first exception raised in the run, or "none"
  failed_client,        \* 1-based number of the client whose resolution or send raised, else 0
  attempts,             \* 1-based client numbers passed to send_pdf_to_phone
  breaks,               \* inter-session breaks waited
  close_calls,          \* invocations of bot.close()
  close_result,         \* "none" | "returned" | "raised"
  ctx_close_raised,     \* the context-close step of close() raised
  bot_calls,            \* driver calls made by close(), in order
  \* phone normalizer
  phone_pc,             \* "idle" | "raw" | "once" | "twice"
  phone_raw,            \* the raw phone string, a sequence of characters
  phone_once,           \* result of normalizing phone_raw
  phone_twice,          \* result of normalizing phone_once's digits
  \* UI thread
  other_workers,        \* worker threads still running when a newer one was started
  start_refused,        \* the last Start request was refused as busy
  \* PdfFinder._build_index
  idx_pc,               \* "idle" | "loop" | "done"
  idx_pdfs,             \* stems of the files listed by glob("*.pdf")
  idx_todo,             \* files the loop has not reached yet
  idx_index,            \* index: key -> stem
  idx_result,           \* "none" | "ok" | "PdfAmbiguousMatchError"
  idx_named,            \* the two file names the error message gives
  \* save_clients_csv
  save_pc,              \* position in save_clients_csv
  save_rows,            \* number of rows of the new contents
  dest_file,            \* csv_path on disk: [ver, rows]
  tmp_file,             \* tmp_path on disk: [ver, rows]
  save_crashed,         \* the process died during save
  \* WhatsAppBot.send_pdf_to_phone
  send_pc,              \* position in send_pdf_to_phone
  ui_ops,               \* the browser operations of this send, in order
  send_result,          \* "none" | "ok" | the exception send_pdf_to_phone raised
  fail_stage,           \* the step that raised it
  probe_k,              \* iteration of the Document-option loop
  attach_exc,           \* exception in flight inside the attach step's try block
  attach_handler,       \* except clause of the attach step that ran, or "none"
  dump_outcomes,        \* outcome of each diagnostic capture
  chat_banners,         \* banners seen when the composer did not appear
  batch_before,         \* _batch_success_count when the send began
  batch_success_count,  \* WhatsAppBot._batch_success_count
  batch_pause_after_successes,  \* WhatsAppBot._batch_pause_after_successes
  \* WhatsAppBot._ensure_whatsapp_loaded
  ready_pc,             \* "idle" | "goto" | "poll" | "sleep_qr" | "sleep" | "done"
  elapsed,              \* tenths of a second since start_time
  poll_began,           \* elapsed when the current poll began
  page_state,           \* what the last poll saw
  ready_result,         \* "none" | "Ready" | the exception raised
  \* the loaded catalog
  sent_flags,           \* ClientRecord.sent of each loaded client, in order
  \* batch pacing of the bot over a run
  threshold_before,     \* _batch_pause_after_successes when the last send began
  cooldown_taken,       \* the last successful send ended with the batch pause
  session_start_counts  \* _batch_success_count at the first send of each session

runVars == <<pc, start_btn, ui_queue, clients, total, daily_success_sends,
             sessions_completed, client_idx, session_target, sent_this_session,
             pending_exc, bot_playwright, bot_context, bot_page, close_exc,
             start_returned, first_exc, failed_client, attempts, breaks,
             close_calls, close_result, ctx_close_raised, bot_calls>>
phoneVars == <<phone_pc, phone_raw, phone_once, phone_twice>>
uiVars == <<other_workers, start_refused>>
indexVars == <<idx_pc, idx_pdfs, idx_todo, idx_index, idx_result, idx_named>>
saveVars == <<save_pc, save_rows, dest_file, tmp_file, save_crashed>>
sendVars == <<send_pc, ui_ops, send_result, fail_stage, probe_k, attach_exc, attach_handler,
              dump_outcomes, chat_banners, batch_before, batch_success_count,
              batch_pause_after_successes>>
readyVars == <<ready_pc, elapsed, poll_began, page_state, ready_result>>
catalogVars == <<sent_flags>>
paceVars == <<threshold_before, cooldown_taken, session_start_counts>>
vars == <<runVars, phoneVars, uiVars, indexVars, saveVars, sendVars, readyVars,
          catalogVars, paceVars>>
\* What the steps of one component leave alone.
notRunVars == <<phoneVars, uiVars, indexVars, saveVars, sendVars, readyVars,
  catalogVars, paceVars>>
notPhoneVars == <<runVars, uiVars, indexVars, saveVars, sendVars, readyVars,
  catalogVars, paceVars>>
notIndexVars == <<runVars, phoneVars, uiVars, saveVars, sendVars, readyVars,
  catalogVars, paceVars>>
notSaveVars == <<runVars, phoneVars, uiVars, indexVars, sendVars, readyVars,
  catalogVars, paceVars>>
notSendVars == <<runVars, phoneVars, uiVars, indexVars, saveVars, readyVars,
  catalogVars, paceVars>>
notReadyVars == <<runVars, phoneVars, uiVars, indexVars, saveVars, sendVars,
  catalogVars, paceVars>>

\* ---------------------------------------------------------------- helpers
Min2(a, b) == IF a <= b THEN a ELSE b
Min3(a, b, c) == Min2(a, Min2(b, c))
Last(s) == s[Len(s)]

\* ------------------------------------------------------------- exceptions
\* The exception classes of the program and of its libraries, each with its
\* direct base class.
ExcBase ==
  [ PdfNotFoundError           |-> "FileNotFoundError",
    FileNotFoundError          |-> "OSError",
    NotADirectoryError         |-> "OSError",
    OSError                    |-> "Exception",
    PdfAmbiguousMatchError     |-> "RuntimeError",
    WhatsAppNotReadyError      |-> "RuntimeError",
    WhatsAppSendError          |-> "RuntimeError",
    RuntimeError               |-> "Exception",
    CsvValidationError         |-> "ValueError",
    CsvInvalidPhoneNumberError |-> "ValueError",
    BotInvalidPhoneNumberError |-> "ValueError",
    ValueError                 |-> "Exception",
    PlaywrightError            |-> "Exception",
    PlaywrightTimeoutError     |-> "PlaywrightError",
    AttributeError             |-> "Exception" ]

RECURSIVE IsInstance(_, _)
IsInstance(e, cls) ==
  \/ e = cls
  \/ e \in DOMAIN ExcBase /\ IsInstance(ExcBase[e], cls)

\* The classes named by the except clauses of _run_job that report str(e).
MessageClauses ==
  { "PdfNotFoundError", "PdfAmbiguousMatchError", "FileNotFoundError",
    "CsvInvalidPhoneNumberError", "BotInvalidPhoneNumberError",
    "WhatsAppNotReadyError", "WhatsAppSendError" }

\* What the except clauses put as the error event's payload: str(e) for the
\* classes they name, traceback.format_exc() for any other Exception.
ExceptPayload(e) ==
  IF \E c \in MessageClauses : IsInstance(e, c) THEN "message" ELSE "traceback"

\* ------------------------------------------------------------------ events
Ev(kind, text, detail, cur, tot) ==
  [kind |-> kind, text |-> text, detail |-> detail, cur |-> cur, tot |-> tot]
Log(text) == Ev("log", text, "", 0, 0)
ProgressInit(t) == Ev("progress_init", "", "", 0, t)
ProgressOffByOne(cur, tot, label) == Ev("progress", label, "", cur + 1, tot)
\* ("progress", (current, total, label))
Progress(cur, tot, label) == Ev("progress", label, "", cur, tot)
Done(text) == Ev("done", text, "", 0, 0)
ErrorEv(e) == Ev("error", e, ExceptPayload(e), 0, 0)

MsgAllSent == "All PDFs sent."
MsgDailyLimit == "Daily safe limit (60 PDFs) reached. Stopping automation."
MsgSessionLimit == "Daily session limit reached. Stopping automation."

WorkerAlive == pc \notin {"idle", "exited"}

\* ------------------------------------------------- _run_job: pure decisions
\* while client_idx < total and daily_success_sends < daily_max_sends
\*       and sessions_completed < max_sessions_per_day
OuterLoopCond(idx, tot, daily, sessions) ==
  /\ idx < tot
  /\ daily < daily_max_sends
  /\ sessions < max_sessions_per_day

SessionTargetNoSessionCap(daily, idx, tot) ==
  Min2(daily_max_sends - daily, tot - idx)
SessionTargetShortSession(daily, idx, tot) ==
  Min3(session_remaining_capacity - 1, daily_max_sends - daily, tot - idx)
\* session_target = min(session_remaining_capacity, remaining_daily_capacity,
\*                      remaining_clients)
SessionTarget(daily, idx, tot) ==
  Min3(session_remaining_capacity, daily_max_sends - daily, tot - idx)

\* while sent_this_session < session_target and client_idx < total
\*       and daily_success_sends < daily_max_sends
InnerLoopCond(sent, target, idx, tot, daily) ==
  /\ sent < target
  /\ idx < tot
  /\ daily < daily_max_sends

InnerLoopContinuesNoCaps(sent, target, idx, tot, daily) == idx < tot
\* After a successful send: the loop goes on to the next client unless the
\* daily-limit check breaks out of it or the while condition fails.
InnerLoopContinues(sent, target, idx, tot, daily) ==
  /\ ~(daily >= daily_max_sends)
  /\ InnerLoopCond(sent, target, idx, tot, daily)

SessionLoopBreaksIgnoringClients(daily, idx, tot, sessions) ==
  \/ daily >= daily_max_sends
  \/ sessions >= max_sessions_per_day
\* The three break statements that follow the inner loop.
SessionLoopBreaks(daily, idx, tot, sessions) ==
  \/ daily >= daily_max_sends
  \/ idx >= tot
  \/ sessions >= max_sessions_per_day

\* The completion message chosen after the session loop.
DoneMessage(daily, sessions, idx, tot) ==
  IF daily >= daily_max_sends THEN MsgDailyLimit
  ELSE IF sessions >= max_sessions_per_day /\ idx < tot THEN MsgSessionLimit
  ELSE MsgAllSent

UnwindTargetNoFinally(inTry) == "handler"
UnwindTargetRetriesClient(inTry) == IF inTry THEN "prepare" ELSE "handler"
\* Where an exception raised in _run_job goes first: the finally clause
\* (bot.close()) when raised inside the inner try, else the except clauses.
UnwindTarget(inTry) == IF inTry THEN "close_ctx" ELSE "handler"

Raise(e, inTry) ==
  /\ pending_exc' = e
  /\ first_exc' = IF first_exc = "none" THEN e ELSE first_exc
  /\ failed_client' = IF inTry THEN client_idx + 1 ELSE failed_client
  /\ pc' = UnwindTarget(inTry)

\* ------------------------------------------------------ environment choices
LoadErrors ==
  {"FileNotFoundError", "CsvValidationError", "CsvInvalidPhoneNumberError"}
IndexErrors ==
  {"FileNotFoundError", "NotADirectoryError", "PdfAmbiguousMatchError"}
ResolveErrors == {"PdfNotFoundError"}
SendErrors ==
  { "BotInvalidPhoneNumberError", "FileNotFoundError", "WhatsAppNotReadyError",
    "WhatsAppSendError", "PlaywrightError" }
\* How far start() gets before it raises, and what the bot then holds.
StartFailures ==
  { [exc |-> "OSError",               playwright |-> FALSE, context |-> FALSE, page |-> FALSE],
    [exc |-> "PlaywrightError",       playwright |-> TRUE,  context |-> FALSE, page |-> FALSE],
    [exc |-> "PlaywrightError",       playwright |-> TRUE,  context |-> TRUE,  page |-> FALSE],
    [exc |-> "PlaywrightError",       playwright |-> TRUE,  context |-> TRUE,  page |-> TRUE],
    [exc |-> "WhatsAppNotReadyError", playwright |-> TRUE,  context |-> TRUE,  page |-> TRUE] }

\* -------------------------------------------------------------------- Init
RunInit ==
  /\ pc = "idle"
  /\ start_btn = "normal"
  /\ ui_queue = <<>>
  /\ clients = 0
  /\ total = 0
  /\ daily_success_sends = 0
  /\ sessions_completed = 0
  /\ client_idx = 0
  /\ session_target = 0
  /\ sent_this_session = 0
  /\ pending_exc = "none"
  /\ bot_playwright = FALSE
  /\ bot_context = FALSE
  /\ bot_page = FALSE
  /\ close_exc = "none"
  /\ start_returned = FALSE
  /\ first_exc = "none"
  /\ failed_client = 0
  /\ attempts = <<>>
  /\ breaks = 0
  /\ close_calls = 0
  /\ close_result = "none"
  /\ ctx_close_raised = FALSE
  /\ bot_calls = <<>>

PhoneIdle ==
  /\ phone_pc = "idle"
  /\ phone_raw = <<>>
  /\ phone_once = [status |-> "none", digits |-> <<>>]
  /\ phone_twice = [status |-> "none", digits |-> <<>>]

UiIdle ==
  /\ other_workers = 0
  /\ start_refused = FALSE

IndexIdle ==
  /\ idx_pc = "idle"
  /\ idx_pdfs = {}
  /\ idx_todo = {}
  /\ idx_index = << >>
  /\ idx_result = "none"
  /\ idx_named = << >>

NoFile == [ver |-> "absent", rows |-> 0]
SaveIdle ==
  /\ save_pc = "idle"
  /\ save_rows = 0
  /\ dest_file = NoFile
  /\ tmp_file = NoFile
  /\ save_crashed = FALSE

SendIdle ==
  /\ send_pc = "idle"
  /\ ui_ops = << >>
  /\ send_result = "none"
  /\ fail_stage = "none"
  /\ probe_k = 0
  /\ attach_exc = "none"
  /\ attach_handler = "none"
  /\ dump_outcomes = << >>
  /\ chat_banners = "none"
  /\ batch_before = 0
  /\ batch_success_count = 0
  /\ batch_pause_after_successes = 10

ReadyIdle ==
  /\ ready_pc = "idle"
  /\ elapsed = 0
  /\ poll_began = 0
  /\ page_state = "none"
  /\ ready_result = "none"

CatalogIdle == sent_flags = << >>

PaceIdle ==
  /\ threshold_before = 0
  /\ cooldown_taken = FALSE
  /\ session_start_counts = << >>

Init ==
  /\ CatalogIdle /\ PaceIdle
  /\ RunInit /\ PhoneIdle /\ UiIdle /\ IndexIdle /\ SaveIdle /\ SendIdle /\ ReadyIdle

\* ------------------------------------------------------------------ actions
\* App._on_start: refuses while a worker is alive, else disables the button
\* and starts the worker thread on _run_job.
StartBusyNever == FALSE
\* `self._worker_thread and self._worker_thread.is_alive()`
StartBusy == WorkerAlive

\* _on_start, the Start button's command.  A refused request shows the "Busy"
\* warning and returns.  An accepted one starts a new worker thread on a fresh
\* _run_job frame; a worker that were still alive would keep running beside it.
OnStart ==
  IF StartBusy
  THEN /\ start_refused' = TRUE
       /\ UNCHANGED <<runVars, other_workers>>
       /\ UNCHANGED <<phoneVars, indexVars, saveVars, sendVars, readyVars,
                      catalogVars, paceVars>>
  ELSE /\ start_refused' = FALSE
       /\ other_workers' = other_workers + (IF WorkerAlive THEN 1 ELSE 0)
       /\ start_btn' = "disabled"
       /\ pc' = "load"
       /\ clients' = 0
       /\ total' = 0
       /\ daily_success_sends' = 0
       /\ sessions_completed' = 0
       /\ client_idx' = 0
       /\ session_target' = 0
       /\ sent_this_session' = 0
       /\ pending_exc' = "none"
       /\ bot_playwright' = FALSE
       /\ bot_context' = FALSE
       /\ bot_page' = FALSE
       /\ close_exc' = "none"
       /\ start_returned' = FALSE
       /\ first_exc' = "none"
       /\ failed_client' = 0
       /\ attempts' = <<>>
       /\ breaks' = 0
       /\ close_calls' = 0
       /\ close_result' = "none"
       /\ ctx_close_raised' = FALSE
       /\ bot_calls' = <<>>
       /\ UNCHANGED ui_queue
       /\ UNCHANGED <<phoneVars, indexVars, saveVars, sendVars, readyVars,
                      catalogVars, paceVars>>

\* The run the model follows is the one started by the first Start request.
FirstStart == pc = "idle" /\ OnStart

\* qlog("Loading CSV"); clients = load_clients_csv(csv_path)
LoadClientsRun ==
  /\ pc = "load"
  /\ ui_queue' = Append(ui_queue, Log("Loading CSV"))
  /\ \/ /\ \E n \in 1..MaxClients : clients' = n
        /\ pc' = "index"
        /\ UNCHANGED <<pending_exc, first_exc, failed_client>>
     \/ /\ \E e \in LoadErrors : Raise(e, FALSE)
        /\ UNCHANGED clients
  /\ UNCHANGED <<start_btn, total, daily_success_sends, sessions_completed,
                 client_idx, session_target, sent_this_session, bot_playwright,
                 bot_context, bot_page, close_exc, start_returned, attempts,
                 breaks, close_calls, close_result, ctx_close_raised, bot_calls>>

LoadClients == LoadClientsRun /\ UNCHANGED notRunVars

\* qlog("Indexing PDFs"); finder = PdfFinder(reports_dir)
IndexPdfs ==
  /\ pc = "index"
  /\ ui_queue' = Append(ui_queue, Log("Indexing PDFs"))
  /\ \/ /\ pc' = "bot_start"
        /\ UNCHANGED <<pending_exc, first_exc, failed_client>>
     \/ \E e \in IndexErrors : Raise(e, FALSE)
  /\ UNCHANGED <<start_btn, clients, total, daily_success_sends,
                 sessions_completed, client_idx, session_target,
                 sent_this_session, bot_playwright, bot_context, bot_page,
                 close_exc, start_returned, attempts, breaks, close_calls,
                 close_result, ctx_close_raised, bot_calls>>
  /\ UNCHANGED notRunVars

\* bot = WhatsAppBot(...); bot.start(log=qlog); and, once start has returned,
\* the first statements of the try body: total, progress_init, the counters.
BotStartRun ==
  /\ pc = "bot_start"
  /\ \/ /\ bot_playwright' = TRUE
        /\ bot_context' = TRUE
        /\ bot_page' = TRUE
        /\ start_returned' = TRUE
        /\ total' = clients
        /\ ui_queue' = Append(ui_queue, ProgressInit(clients))
        /\ daily_success_sends' = 0
        /\ sessions_completed' = 0
        /\ client_idx' = 0
        /\ pc' = "outer"
        /\ UNCHANGED <<pending_exc, first_exc, failed_client>>
     \/ /\ \E f \in StartFailures :
             /\ bot_playwright' = f.playwright
             /\ bot_context' = f.context
             /\ bot_page' = f.page
             /\ Raise(f.exc, FALSE)
        /\ UNCHANGED <<start_returned, total, ui_queue, daily_success_sends,
                       sessions_completed, client_idx>>
  /\ UNCHANGED <<start_btn, clients, session_target, sent_this_session,
                 close_exc, attempts, breaks, close_calls, close_result,
                 ctx_close_raised, bot_calls>>

BotStart == BotStartRun /\ UNCHANGED notRunVars

\* The head of the session loop.  When its condition holds: the count, the
\* start jitter, reset_session_counters (WhatsAppBot defines no such method:
\* the AttributeError is swallowed), the session target, and the first test
\* of the inner loop.  When it fails, control falls to the completion report.
SessionBeginRun ==
  /\ pc = "outer"
  /\ IF OuterLoopCond(client_idx, total, daily_success_sends, sessions_completed)
     THEN /\ sessions_completed' = sessions_completed + 1
          /\ session_target' = SessionTarget(daily_success_sends, client_idx, total)
          /\ sent_this_session' = 0
          /\ ui_queue' = ui_queue \o
               <<Log("Session start jitter"), Log("Starting session")>>
          /\ pc' = IF InnerLoopCond(0, session_target', client_idx, total,
                                    daily_success_sends)
                   THEN "prepare" ELSE "after_inner"
     ELSE /\ pc' = "report"
          /\ UNCHANGED <<sessions_completed, session_target, sent_this_session,
                         ui_queue>>
  /\ UNCHANGED <<start_btn, clients, total, daily_success_sends, client_idx,
                 pending_exc, bot_playwright, bot_context, bot_page, close_exc,
                 start_returned, first_exc, failed_client, attempts, breaks, close_calls,
                 close_result, ctx_close_raised, bot_calls>>

SessionBegin == SessionBeginRun /\ UNCHANGED notRunVars

\* The pre-send progress event and finder.find_pdf_for_client(c.client_name).
PrepareClient ==
  /\ pc = "prepare"
  /\ \/ /\ ui_queue' = ui_queue \o
               <<Progress(client_idx, total, "Preparing"), Log("Sending to")>>
        /\ pc' = "send"
        /\ UNCHANGED <<pending_exc, first_exc, failed_client>>
     \/ /\ ui_queue' = Append(ui_queue, Progress(client_idx, total, "Preparing"))
        /\ \E e \in ResolveErrors : Raise(e, TRUE)
  /\ UNCHANGED <<start_btn, clients, total, daily_success_sends,
                 sessions_completed, client_idx, session_target,
                 sent_this_session, bot_playwright, bot_context, bot_page,
                 close_exc, start_returned, attempts, breaks, close_calls,
                 close_result, ctx_close_raised, bot_calls>>
  /\ UNCHANGED notRunVars

\* bot.send_pdf_to_phone(...) and, when it returns, the counters, the
\* post-send progress event, the daily-limit check and the loop test.
SendClientRun ==
  /\ pc = "send"
  /\ attempts' = Append(attempts, client_idx + 1)
  /\ \/ /\ daily_success_sends' = daily_success_sends + 1
        /\ sent_this_session' = sent_this_session + 1
        /\ client_idx' = client_idx + 1
        /\ ui_queue' = ui_queue \o
               <<Progress(client_idx + 1, total, "Sent to")>> \o
               (IF daily_success_sends' >= daily_max_sends
                THEN <<Log(MsgDailyLimit)>> ELSE <<>>)
        /\ pc' = IF InnerLoopContinues(sent_this_session', session_target,
                                       client_idx', total, daily_success_sends')
                 THEN "prepare" ELSE "after_inner"
        /\ UNCHANGED <<pending_exc, first_exc, failed_client>>
     \/ /\ \E e \in SendErrors : Raise(e, TRUE)
        /\ UNCHANGED <<daily_success_sends, sent_this_session, client_idx,
                       ui_queue>>
  /\ UNCHANGED <<start_btn, clients, total, sessions_completed, session_target,
                 bot_playwright, bot_context, bot_page, close_exc,
                 start_returned, breaks, close_calls, close_result,
                 ctx_close_raised, bot_calls>>

SendClient == SendClientRun /\ UNCHANGED notRunVars

\* After the inner loop: one of the three breaks leaves the session loop.
LeaveSessions ==
  /\ pc = "after_inner"
  /\ SessionLoopBreaks(daily_success_sends, client_idx, total, sessions_completed)
  /\ ui_queue' =
       IF /\ daily_success_sends < daily_max_sends
          /\ client_idx < total
       THEN Append(ui_queue, Log("Daily session limit (2 sessions) reached. Stopping automation."))
       ELSE ui_queue
  /\ pc' = "report"
  /\ UNCHANGED <<start_btn, clients, total, daily_success_sends,
                 sessions_completed, client_idx, session_target,
                 sent_this_session, pending_exc, bot_playwright, bot_context,
                 bot_page, close_exc, start_returned, first_exc, failed_client, attempts,
                 breaks, close_calls, close_result, ctx_close_raised, bot_calls>>
  /\ UNCHANGED notRunVars

\* After the inner loop, no break taken: the inter-session pause.
InterSessionBreak ==
  /\ pc = "after_inner"
  /\ ~SessionLoopBreaks(daily_success_sends, client_idx, total, sessions_completed)
  /\ ui_queue' = ui_queue \o
       <<Log("Inter-session break"), Log("Next session not before")>>
  /\ breaks' = breaks + 1
  /\ pc' = "outer"
  /\ UNCHANGED <<start_btn, clients, total, daily_success_sends,
                 sessions_completed, client_idx, session_target,
                 sent_this_session, pending_exc, bot_playwright, bot_context,
                 bot_page, close_exc, start_returned, first_exc, failed_client, attempts,
                 close_calls, close_result, ctx_close_raised, bot_calls>>
  /\ UNCHANGED notRunVars

\* The completion event; control then enters the finally clause.
ReportDone ==
  /\ pc = "report"
  /\ ui_queue' = Append(ui_queue,
       Done(DoneMessage(daily_success_sends, sessions_completed, client_idx, total)))
  /\ pc' = "close_ctx"
  /\ UNCHANGED <<start_btn, clients, total, daily_success_sends,
                 sessions_completed, client_idx, session_target,
                 sent_this_session, pending_exc, bot_playwright, bot_context,
                 bot_page, close_exc, start_returned, first_exc, failed_client, attempts,
                 breaks, close_calls, close_result, ctx_close_raised, bot_calls>>
  /\ UNCHANGED notRunVars

\* --------------------------------------------------------- WhatsAppBot.close
DriverStopOnlyAfterCleanClose(hasDriver, ctxExc) == hasDriver /\ ctxExc = "none"
\* The finally clause of close() runs whatever the try block did, so the
\* driver is stopped whenever one exists.
DriverStopAttempted(hasDriver, ctxExc) == hasDriver

\* The exception close() leaves with: one raised by the finally clause
\* replaces the one pending from the try block; neither is caught.
CloseException(ctxExc, stopExc) == IF stopExc # "none" THEN stopExc ELSE ctxExc

\* bot.close() is entered from the finally clause of _run_job; its try block:
\* if self._context is not None: self._context.close()
CloseContext ==
  /\ pc = "close_ctx"
  /\ close_calls' = close_calls + 1
  /\ IF bot_context
     THEN /\ bot_calls' = Append(bot_calls, "context.close")
          /\ \/ /\ close_exc' = "none"
                /\ UNCHANGED <<ctx_close_raised, first_exc, failed_client>>
             \/ /\ close_exc' = "PlaywrightError"
                /\ ctx_close_raised' = TRUE
                /\ first_exc' = IF first_exc = "none" THEN "PlaywrightError" ELSE first_exc
                /\ UNCHANGED failed_client
     ELSE /\ close_exc' = "none"
          /\ UNCHANGED <<bot_calls, ctx_close_raised, first_exc, failed_client>>
  /\ pc' = "close_finally"
  /\ UNCHANGED <<start_btn, ui_queue, clients, total, daily_success_sends,
                 sessions_completed, client_idx, session_target,
                 sent_this_session, pending_exc, bot_playwright, bot_context,
                 bot_page, start_returned, attempts, breaks, close_result>>
  /\ UNCHANGED notRunVars

\* The finally clause of close(), and close()'s return into _run_job: an
\* exception leaving close() replaces the one pending from the try body; with
\* none pending the worker function returns.
CloseFinally ==
  /\ pc = "close_finally"
  /\ bot_context' = FALSE
  /\ bot_page' = FALSE
  /\ \E stopExc \in {"none", "PlaywrightError"} :
       /\ IF DriverStopAttempted(bot_playwright, close_exc)
          THEN /\ bot_calls' = Append(bot_calls, "playwright.stop")
               /\ bot_playwright' = (stopExc # "none")
          ELSE /\ stopExc = "none"
               /\ UNCHANGED <<bot_calls, bot_playwright>>
       /\ close_exc' = CloseException(close_exc, stopExc)
  /\ close_result' = IF close_exc' = "none" THEN "returned" ELSE "raised"
  /\ first_exc' = IF first_exc = "none" THEN close_exc' ELSE first_exc
  /\ pending_exc' = IF close_exc' # "none" THEN close_exc' ELSE pending_exc
  /\ pc' = IF pending_exc' # "none" THEN "handler" ELSE "exited"
  /\ UNCHANGED failed_client
  /\ UNCHANGED <<start_btn, ui_queue, clients, total, daily_success_sends,
                 sessions_completed, client_idx, session_target,
                 sent_this_session, start_returned, attempts, breaks,
                 close_calls, ctx_close_raised>>
  /\ UNCHANGED notRunVars

\* The except clauses of _run_job: one error event, then the worker returns.
Handler ==
  /\ pc = "handler"
  /\ ui_queue' = Append(ui_queue, ErrorEv(pending_exc))
  /\ pc' = "exited"
  /\ UNCHANGED <<start_btn, clients, total, daily_success_sends,
                 sessions_completed, client_idx, session_target,
                 sent_this_session, pending_exc, bot_playwright, bot_context,
                 bot_page, close_exc, start_returned, first_exc, failed_client, attempts,
                 breaks, close_calls, close_result, ctx_close_raised, bot_calls>>
  /\ UNCHANGED notRunVars

Next ==
  \/ FirstStart
  \/ LoadClients
  \/ IndexPdfs
  \/ BotStart
  \/ SessionBegin
  \/ PrepareClient
  \/ SendClient
  \/ LeaveSessions
  \/ InterSessionBreak
  \/ ReportDone
  \/ CloseContext
  \/ CloseFinally
  \/ Handler

Spec == Init /\ [][Next]_vars

\* The steps of the worker thread.  _on_start runs _run_job in a daemon
\* thread of its own, which the operating system keeps scheduling: a worker
\* that can take a step eventually takes one.  Every browser call and every
\* sleep of a step is taken to return; the user's click is not forced.
WorkerStep ==
  \/ LoadClients
  \/ IndexPdfs
  \/ BotStart
  \/ SessionBegin
  \/ PrepareClient
  \/ SendClient
  \/ LeaveSessions
  \/ InterSessionBreak
  \/ ReportDone
  \/ CloseContext
  \/ CloseFinally
  \/ Handler

SpecLive == Init /\ [][Next]_vars /\ WF_vars(WorkerStep)

\* ------------------------------------------ _normalize_phone_to_e164_digits
\* A phone string is a sequence of characters; NBSP stands for U+00A0.
PhoneChars == {"0", "5", "+", " ", "-", "NBSP"}
Digits == {"0", "1", "2", "3", "4", "5", "6", "7", "8", "9"}
IsDigit(c) == c \in Digits
\* str.strip() removes Unicode white space, U+00A0 included.
IsSpace(c) == c \in {" ", "NBSP"}

RECURSIVE LStrip(_)
LStrip(s) == IF s # <<>> /\ IsSpace(Head(s)) THEN LStrip(Tail(s)) ELSE s
RECURSIVE RStrip(_)
RStrip(s) ==
  IF s # <<>> /\ IsSpace(s[Len(s)]) THEN RStrip(SubSeq(s, 1, Len(s) - 1)) ELSE s
Strip(s) == RStrip(LStrip(s))

\* raw.replace(" ", " ")
ReplaceNbsp(s) == [i \in 1..Len(s) |-> IF s[i] = "NBSP" THEN " " ELSE s[i]]
StartsWith(s, p) == Len(s) >= Len(p) /\ SubSeq(s, 1, Len(p)) = p
\* re.sub(r"\D", "", s)
DigitsOf(s) == SelectSeq(s, IsDigit)
RECURSIVE LStripPlus(_)
\* s.lstrip("+")
LStripPlus(s) == IF s # <<>> /\ Head(s) = "+" THEN LStripPlus(Tail(s)) ELSE s

\* _PHONE_RE = ^\+?\d{8,15}$
PhoneReMatches(s) ==
  LET body == IF StartsWith(s, <<"+">>) THEN Tail(s) ELSE s
  IN  /\ \A i \in 1..Len(body) : IsDigit(body[i])
      /\ Len(body) >= PhoneMinDigits
      /\ Len(body) <= PhoneMaxDigits

PhoneOk(d) == [status |-> "ok", digits |-> d]
PhoneError == [status |-> "InvalidPhoneNumberError", digits |-> <<>>]

NormalizePhone(phone) ==
  LET raw0 == Strip(phone)
      raw1 == Strip(ReplaceNbsp(raw0))
      raw2 == IF StartsWith(raw1, <<"0", "0">>)
              THEN <<"+">> \o SubSeq(raw1, 3, Len(raw1))
              ELSE raw1
      cleaned == IF StartsWith(raw2, <<"+">>)
                 THEN <<"+">> \o DigitsOf(Tail(raw2))
                 ELSE DigitsOf(raw2)
  IN  IF raw0 = <<>> THEN PhoneError
      ELSE IF cleaned = <<>> THEN PhoneError
      ELSE IF ~PhoneReMatches(cleaned) THEN PhoneError
      ELSE PhoneOk(LStripPlus(cleaned))

\* The raw phone strings the normalizer is applied to.
PhoneHeads == UNION {[1..n -> PhoneChars] : n \in 0..MaxHeadLen}
PhonePad(k) == [i \in 1..k |-> "5"]
PhoneInputs == {h \o PhonePad(k) : h \in PhoneHeads, k \in 0..MaxPadLen}

PhoneInit ==
  /\ CatalogIdle /\ PaceIdle
  /\ RunInit /\ UiIdle /\ IndexIdle /\ SaveIdle /\ SendIdle /\ ReadyIdle
  /\ phone_pc = "raw"
  /\ phone_raw \in PhoneInputs
  /\ phone_once = [status |-> "none", digits |-> <<>>]
  /\ phone_twice = [status |-> "none", digits |-> <<>>]

\* phone_digits = _normalize_phone_to_e164_digits(phone_raw)
NormalizeOnce ==
  /\ phone_pc = "raw"
  /\ phone_once' = NormalizePhone(phone_raw)
  /\ phone_pc' = "once"
  /\ UNCHANGED <<phone_raw, phone_twice>>
  /\ UNCHANGED notPhoneVars

\* The normalizer applied to the digits it returned.
NormalizeTwice ==
  /\ phone_pc = "once"
  /\ phone_once.status = "ok"
  /\ phone_twice' = NormalizePhone(phone_once.digits)
  /\ phone_pc' = "twice"
  /\ UNCHANGED <<phone_raw, phone_once>>
  /\ UNCHANGED notPhoneVars

PhoneNext == NormalizeOnce \/ NormalizeTwice

SpecPhone == PhoneInit /\ [][PhoneNext]_vars

\* ============================================================ report index
\* File stems are sequences of characters; the alphabet has a lower-case and an
\* upper-case letter, a second letter, a punctuation mark and a blank.
MaxStemLen == 2
MaxFiles == 2
StemChars == {"a", "A", "b", "-", " "}
Stems == UNION {[1..n -> StemChars] : n \in 1..MaxStemLen}

\* str.lower()
Lower(c) == IF c = "A" THEN "a" ELSE c
LowerStr(s) == [i \in 1..Len(s) |-> Lower(s[i])]
\* the characters re.sub(r"[^a-z0-9]", "", v) keeps
IsKeyChar(c) == c \in {"a", "b"}

\* _normalize_key: strip, lower, drop everything outside [a-z0-9]
NormalizeKey(s) == SelectSeq(LowerStr(Strip(s)), IsKeyChar)

\* The directories listed by glob("*.pdf"): at most MaxFiles distinct files.
RECURSIVE SetsUpTo(_, _)
SetsUpTo(S, n) ==
  IF n = 0 THEN {{}}
  ELSE LET r == SetsUpTo(S, n - 1) IN r \cup {t \cup {x} : t \in r, x \in S}
Directories == SetsUpTo(Stems, MaxFiles)

IndexCollisionNever(index, key, p) == FALSE
\* `key in index and index[key] != p`
IndexCollision(index, key, p) == key \in DOMAIN index /\ index[key] # p

\* index[key] = p
IndexPut(index, key, p) ==
  [k \in DOMAIN index \cup {key} |-> IF k = key THEN p ELSE index[k]]

IndexInit ==
  /\ CatalogIdle /\ PaceIdle
  /\ RunInit /\ PhoneIdle /\ UiIdle /\ SaveIdle /\ SendIdle /\ ReadyIdle
  /\ idx_pc = "loop"
  /\ idx_pdfs \in Directories
  /\ idx_todo = idx_pdfs
  /\ idx_index = << >>
  /\ idx_result = "none"
  /\ idx_named = << >>

\* One iteration of `for p in pdfs`, in whatever order glob listed the files.
BuildIndexStep ==
  /\ idx_pc = "loop"
  /\ \E p \in idx_todo :
       LET key == NormalizeKey(p) IN
       IF key = << >>
       THEN /\ idx_todo' = idx_todo \ {p}
            /\ UNCHANGED <<idx_pc, idx_index, idx_result, idx_named>>
       ELSE IF IndexCollision(idx_index, key, p)
       THEN /\ idx_pc' = "done"
            /\ idx_result' = "PdfAmbiguousMatchError"
            /\ idx_named' = <<idx_index[key], p>>
            /\ UNCHANGED <<idx_todo, idx_index>>
       ELSE /\ idx_index' = IndexPut(idx_index, key, p)
            /\ idx_todo' = idx_todo \ {p}
            /\ UNCHANGED <<idx_pc, idx_result, idx_named>>
  /\ UNCHANGED idx_pdfs
  /\ UNCHANGED notIndexVars

\* The loop ran out of files: self._index = index
BuildIndexReturn ==
  /\ idx_pc = "loop"
  /\ idx_todo = {}
  /\ idx_pc' = "done"
  /\ idx_result' = "ok"
  /\ UNCHANGED <<idx_pdfs, idx_todo, idx_index, idx_named>>
  /\ UNCHANGED notIndexVars

IndexNext == BuildIndexStep \/ BuildIndexReturn

SpecIndex == IndexInit /\ [][IndexNext]_vars

\* ============================================================ saving the CSV
\* A file on disk is [ver, rows]: whose contents it holds ("old", "new" or
\* "absent") and how many lines of them are there.  The new contents are the
\* header line and one line per record.
MaxRows == 3
OldFile(n) == [ver |-> "old", rows |-> n]
NewLines == save_rows + 1

SaveInit ==
  /\ CatalogIdle /\ PaceIdle
  /\ RunInit /\ PhoneIdle /\ UiIdle /\ IndexIdle /\ SendIdle /\ ReadyIdle
  /\ save_pc = "to_csv"
  /\ save_rows \in 0..MaxRows
  /\ \E n \in 1..(MaxRows + 1) : dest_file = OldFile(n)
  /\ tmp_file = NoFile
  /\ save_crashed = FALSE

\* df.to_csv(tmp_path): the file is created empty ...
ToCsvOpen ==
  /\ save_pc = "to_csv"
  /\ tmp_file' = [ver |-> "new", rows |-> 0]
  /\ save_pc' = "to_csv_write"
  /\ UNCHANGED <<save_rows, dest_file, save_crashed>>
  /\ UNCHANGED notSaveVars

\* ... and written line by line, then closed
ToCsvWrite ==
  /\ save_pc = "to_csv_write"
  /\ IF tmp_file.rows < NewLines
     THEN /\ tmp_file' = [tmp_file EXCEPT !.rows = @ + 1]
          /\ UNCHANGED save_pc
     ELSE /\ save_pc' = "replace"
          /\ UNCHANGED tmp_file
  /\ UNCHANGED <<save_rows, dest_file, save_crashed>>
  /\ UNCHANGED notSaveVars

\* tmp_path.replace(csv_path) succeeds: one atomic rename
Replace ==
  /\ save_pc = "replace"
  /\ dest_file' = tmp_file
  /\ tmp_file' = NoFile
  /\ save_pc' = "done"
  /\ UNCHANGED <<save_rows, save_crashed>>
  /\ UNCHANGED notSaveVars

\* tmp_path.replace(csv_path) raises: nothing moved, the except clause runs
ReplaceRaises ==
  /\ save_pc = "replace"
  /\ save_pc' = "fallback"
  /\ UNCHANGED <<save_rows, dest_file, tmp_file, save_crashed>>
  /\ UNCHANGED notSaveVars

\* csv_path.write_text(...) opens the destination for writing: it is truncated
FallbackOpenTruncates(f) == [ver |-> "new", rows |-> 0]

\* tmp_path.read_text(), then csv_path.write_text() opens the destination
FallbackOpen ==
  /\ save_pc = "fallback"
  /\ dest_file' = FallbackOpenTruncates(dest_file)
  /\ save_pc' = "fallback_write"
  /\ UNCHANGED <<save_rows, tmp_file, save_crashed>>
  /\ UNCHANGED notSaveVars

\* the text is written to the destination, then the file is closed
FallbackWrite ==
  /\ save_pc = "fallback_write"
  /\ IF dest_file.rows < tmp_file.rows
     THEN /\ dest_file' = [dest_file EXCEPT !.rows = @ + 1]
          /\ UNCHANGED save_pc
     ELSE /\ save_pc' = "unlink"
          /\ UNCHANGED dest_file
  /\ UNCHANGED <<save_rows, tmp_file, save_crashed>>
  /\ UNCHANGED notSaveVars

\* tmp_path.unlink(missing_ok=True)
FallbackUnlink ==
  /\ save_pc = "unlink"
  /\ tmp_file' = NoFile
  /\ save_pc' = "done"
  /\ UNCHANGED <<save_rows, dest_file, save_crashed>>
  /\ UNCHANGED notSaveVars

\* The process dies between two steps of the save: the files stay as they are.
SaveCrash ==
  /\ save_pc \notin {"idle", "done", "crashed"}
  /\ save_crashed' = TRUE
  /\ save_pc' = "crashed"
  /\ UNCHANGED <<save_rows, dest_file, tmp_file>>
  /\ UNCHANGED notSaveVars

SaveNext ==
  \/ ToCsvOpen
  \/ ToCsvWrite
  \/ Replace
  \/ ReplaceRaises
  \/ FallbackOpen
  \/ FallbackWrite
  \/ FallbackUnlink
  \/ SaveCrash

SpecSave == SaveInit /\ [][SaveNext]_vars

\* ============================================================ send protocol
\* send_pdf_to_phone, one call.  ui_ops is what the call did to the page, in
\* order: waits for an element ("wait_*"), clicks ("click_*"), randomized
\* pauses ("sleep"), file supplies and diagnostic captures.
BatchPauseMin == 10
BatchPauseMax == 15
DocumentProbes == 2

UiClicks ==
  {"click_continue", "click_use_web", "click_composer", "click_attach",
   "click_document", "click_send"}
FileSupplies == {"set_input_files", "chooser_set_files"}

SleepRandomSkipped(ops) == ops
\* _sleep_random(min_seconds, max_seconds)
SleepRandom(ops) == Append(ops, "sleep")

\* send_pdf_to_phone raises e from the step named stage
SendRaise(e, stage) ==
  /\ send_result' = e
  /\ fail_stage' = stage
  /\ send_pc' = "done"

SendInit ==
  /\ CatalogIdle /\ PaceIdle
  /\ RunInit /\ PhoneIdle /\ UiIdle /\ IndexIdle /\ SaveIdle /\ ReadyIdle
  /\ send_pc = "validate"
  /\ ui_ops = << >>
  /\ send_result = "none"
  /\ fail_stage = "none"
  /\ probe_k = 0
  /\ attach_exc = "none"
  /\ attach_handler = "none"
  /\ dump_outcomes = << >>
  /\ chat_banners = "none"
  /\ batch_pause_after_successes \in BatchPauseMin..BatchPauseMax
  /\ batch_success_count \in 0..(batch_pause_after_successes - 1)
  /\ batch_before = batch_success_count

\* the two argument checks at the top of send_pdf_to_phone
SendValidate ==
  /\ send_pc = "validate"
  /\ \E digits_ok \in BOOLEAN, pdf_exists \in BOOLEAN :
       IF ~digits_ok THEN SendRaise("BotInvalidPhoneNumberError", "validate")
       ELSE IF ~pdf_exists THEN SendRaise("FileNotFoundError", "validate")
       ELSE send_pc' = "open_chat" /\ UNCHANGED <<send_result, fail_stage>>
  /\ UNCHANGED <<ui_ops, probe_k, attach_exc, attach_handler, dump_outcomes,
                 chat_banners, batch_before, batch_success_count,
                 batch_pause_after_successes>>
  /\ UNCHANGED notSendVars

\* _handle_continue_to_chat: each prompt is clicked if it is visible; a
\* TimeoutError or Error ends the method silently.
ContinueToChatOps(cont, web) ==
  (IF cont THEN <<"click_continue">> ELSE << >>) \o
  (IF web THEN <<"click_use_web">> ELSE << >>)

\* page.goto(send_url); self._handle_continue_to_chat(log=log)
OpenChat ==
  /\ send_pc = "open_chat"
  /\ \/ /\ \E cont \in BOOLEAN, web \in BOOLEAN :
             ui_ops' = ui_ops \o <<"goto">> \o ContinueToChatOps(cont, web)
        /\ send_pc' = "wait_chat"
        /\ UNCHANGED <<send_result, fail_stage>>
     \/ /\ \E e \in {"PlaywrightError", "PlaywrightTimeoutError"} :
             SendRaise(e, "goto")
        /\ ui_ops' = Append(ui_ops, "goto")
  /\ UNCHANGED <<probe_k, attach_exc, attach_handler, dump_outcomes,
                 chat_banners, batch_before, batch_success_count,
                 batch_pause_after_successes>>
  /\ UNCHANGED notSendVars

ChatWaitFailureSendFirst(invalid, notOn) ==
  IF notOn THEN "WhatsAppSendError"
  ELSE IF invalid THEN "BotInvalidPhoneNumberError"
  ELSE "WhatsAppNotReadyError"
\* the except TimeoutError clause of _wait_for_chat_or_error and the raise
\* after it
ChatWaitFailure(invalid, notOn) ==
  IF invalid THEN "BotInvalidPhoneNumberError"
  ELSE IF notOn THEN "WhatsAppSendError"
  ELSE "WhatsAppNotReadyError"

BannerName(invalid, notOn) ==
  IF invalid /\ notOn THEN "both"
  ELSE IF invalid THEN "invalid"
  ELSE IF notOn THEN "not_on_whatsapp"
  ELSE "neither"

\* _wait_for_chat_or_error
WaitForChat ==
  /\ send_pc = "wait_chat"
  /\ ui_ops' = Append(ui_ops, "wait_composer")
  /\ \/ /\ send_pc' = "focus"
        /\ UNCHANGED <<send_result, fail_stage, chat_banners>>
     \/ \E invalid \in BOOLEAN, notOn \in BOOLEAN :
          /\ chat_banners' = BannerName(invalid, notOn)
          /\ SendRaise(ChatWaitFailure(invalid, notOn), "chat_wait")
     \/ /\ SendRaise("PlaywrightError", "chat_wait")
        /\ UNCHANGED chat_banners
  /\ UNCHANGED <<probe_k, attach_exc, attach_handler, dump_outcomes,
                 batch_before, batch_success_count,
                 batch_pause_after_successes>>
  /\ UNCHANGED notSendVars

\* _focus_message_box
FocusMessageBox ==
  /\ send_pc = "focus"
  /\ \/ /\ ui_ops' = ui_ops \o <<"wait_composer", "click_composer">>
        /\ send_pc' = "open_menu"
        /\ UNCHANGED <<send_result, fail_stage>>
     \/ /\ ui_ops' = Append(ui_ops, "wait_composer")
        /\ \E e \in {"WhatsAppNotReadyError", "PlaywrightError"} :
             SendRaise(e, "focus")
  /\ UNCHANGED <<probe_k, attach_exc, attach_handler, dump_outcomes,
                 chat_banners, batch_before, batch_success_count,
                 batch_pause_after_successes>>
  /\ UNCHANGED notSendVars

\* _click_attachment_button: the selectors are tried in order, each waited for
\* and then clicked; the outcome is a click by the first or by a later
\* selector, or no click at all and WhatsAppSendError.
AttachClickOutcomes == {"first", "later", "none"}
AttachClickOps(o) ==
  CASE o = "first" -> <<"click_attach">>
    [] o = "later" -> <<"wait_attach", "click_attach">>
    [] o = "none"  -> <<"wait_attach">>

\* self._sleep_random(0.8, 2.0); self._click_attachment_button()
OpenAttachMenu ==
  /\ send_pc = "open_menu"
  /\ \E o \in AttachClickOutcomes :
       /\ ui_ops' = SleepRandom(ui_ops) \o AttachClickOps(o)
       /\ IF o = "none"
          THEN SendRaise("WhatsAppSendError", "open_menu")
          ELSE send_pc' = "direct" /\ UNCHANGED <<send_result, fail_stage>>
  /\ UNCHANGED <<probe_k, attach_exc, attach_handler, dump_outcomes,
                 chat_banners, batch_before, batch_success_count,
                 batch_pause_after_successes>>
  /\ UNCHANGED notSendVars

\* try_set_file_on_any_input(timeout_ms), by what the page does:
\*   no_input      no file input is attached within the timeout: False
\*   set           an accepting input takes the file: True
\*   none_accepts  every input is image/video only: False
\*   set_failed    every accepting input raised Error: WhatsAppSendError
\*   error         wait_for raises an Error that is not a timeout
\*   timeout       get_attribute raises TimeoutError
TrySetOutcomes ==
  {"no_input", "set", "none_accepts", "set_failed", "error", "timeout"}
TrySetOps(ops, o) ==
  CASE o \in {"no_input", "error"} -> Append(ops, "wait_input")
    [] o = "set" -> Append(SleepRandom(Append(ops, "wait_input")), "set_input_files")
    [] OTHER -> SleepRandom(Append(ops, "wait_input"))
TrySetResult(o) ==
  CASE o = "set" -> "True"
    [] o \in {"no_input", "none_accepts"} -> "False"
    [] o = "set_failed" -> "WhatsAppSendError"
    [] o = "error" -> "PlaywrightError"
    [] o = "timeout" -> "PlaywrightTimeoutError"

\* `if not try_set_file_on_any_input(2_000):`, first statement of the try block
DirectShort ==
  /\ send_pc = "direct"
  /\ \E o \in TrySetOutcomes :
       /\ ui_ops' = TrySetOps(ui_ops, o)
       /\ IF TrySetResult(o) = "True"
          THEN send_pc' = "send_button" /\ UNCHANGED attach_exc
          ELSE IF TrySetResult(o) = "False"
          THEN send_pc' = "probe" /\ UNCHANGED attach_exc
          ELSE send_pc' = "except" /\ attach_exc' = TrySetResult(o)
  /\ UNCHANGED <<send_result, fail_stage, probe_k, attach_handler,
                 dump_outcomes, chat_banners, batch_before,
                 batch_success_count, batch_pause_after_successes>>
  /\ UNCHANGED notSendVars

\* One iteration of `for _ in range(2)`: _get_document_option_locator() finds
\* the option (break), or raises RuntimeError, and then the menu is re-opened
\* after a pause.  After the last iteration `if doc_option is None` raises.
ProbeDocument ==
  /\ send_pc = "probe"
  /\ probe_k < DocumentProbes
  /\ \/ /\ ui_ops' = Append(ui_ops, "wait_document")
        /\ send_pc' = "chooser"
        /\ UNCHANGED <<probe_k, attach_exc>>
     \/ \E o \in AttachClickOutcomes :
          /\ ui_ops' = SleepRandom(Append(ui_ops, "wait_document")) \o AttachClickOps(o)
          /\ probe_k' = probe_k + 1
          /\ IF o = "none"
             THEN send_pc' = "except" /\ attach_exc' = "WhatsAppSendError"
             ELSE IF probe_k + 1 < DocumentProbes
             THEN send_pc' = "probe" /\ UNCHANGED attach_exc
             ELSE send_pc' = "except" /\ attach_exc' = "RuntimeError"
  /\ UNCHANGED <<send_result, fail_stage, attach_handler, dump_outcomes,
                 chat_banners, batch_before, batch_success_count,
                 batch_pause_after_successes>>
  /\ UNCHANGED notSendVars

\* The `with page.expect_file_chooser(timeout=10_000)` block and
\* chooser.set_files:
\*   click_timeout / click_error  doc_option.click() raises
\*   no_chooser                   no file chooser within 10 s: TimeoutError
\*   set_files_error              chooser.set_files raises Error
ChooserOutcomes ==
  {"ok", "click_timeout", "click_error", "no_chooser", "set_files_error"}
ChooserOps(o) ==
  CASE o = "ok" -> <<"click_document", "chooser_set_files">>
    [] o \in {"click_timeout", "click_error"} -> << >>
    [] OTHER -> <<"click_document">>
ChooserResult(o) ==
  CASE o = "ok" -> "True"
    [] o \in {"click_timeout", "no_chooser"} -> "PlaywrightTimeoutError"
    [] OTHER -> "PlaywrightError"

FileChooser ==
  /\ send_pc = "chooser"
  /\ \E o \in ChooserOutcomes :
       /\ ui_ops' = SleepRandom(ui_ops) \o ChooserOps(o)
       /\ IF ChooserResult(o) = "True"
          THEN send_pc' = "send_button" /\ UNCHANGED attach_exc
          ELSE send_pc' = "except" /\ attach_exc' = ChooserResult(o)
  /\ UNCHANGED <<send_result, fail_stage, probe_k, attach_handler,
                 dump_outcomes, chat_banners, batch_before,
                 batch_success_count, batch_pause_after_successes>>
  /\ UNCHANGED notSendVars

\* The except clause that takes e, in the order the clauses are written.
AttachHandler(e) ==
  IF IsInstance(e, "RuntimeError") THEN "RuntimeError"
  ELSE IF IsInstance(e, "PlaywrightTimeoutError") THEN "TimeoutError"
  ELSE IF IsInstance(e, "PlaywrightError") THEN "Error"
  ELSE "none"

\* _dump_debug_artifacts: what went wrong while capturing.
DumpOutcomes ==
  {"ok", "mkdir_failed", "url_failed", "html_failed", "png_failed", "all_failed"}
DumpResultPropagates(d) == IF d = "ok" THEN "returned" ELSE "OSError"
\* mkdir failing returns early; every other step is in try/except Exception
DumpResult(d) == "returned"

LongRetryNeverGivesUp(found) == FALSE
\* `if not try_set_file_on_any_input(10_000): raise WhatsAppSendError`
LongRetryGivesUp(found) == ~found

\* The except clauses of the attach step.
AttachExcept ==
  /\ send_pc = "except"
  /\ attach_handler' = AttachHandler(attach_exc)
  /\ \E d \in DumpOutcomes :
       /\ dump_outcomes' = Append(dump_outcomes, d)
       /\ IF DumpResult(d) # "returned"
          THEN /\ ui_ops' = Append(ui_ops, "dump")
               /\ SendRaise(DumpResult(d), "attach_step")
          ELSE IF AttachHandler(attach_exc) \in {"RuntimeError", "Error"}
          THEN /\ ui_ops' = Append(ui_ops, "dump")
               /\ SendRaise("WhatsAppSendError", "attach_step")
          ELSE \E o \in TrySetOutcomes :
               /\ ui_ops' = TrySetOps(Append(ui_ops, "dump"), o)
               /\ IF TrySetResult(o) \notin {"True", "False"}
                  THEN SendRaise(TrySetResult(o), "attach_step")
                  ELSE IF LongRetryGivesUp(TrySetResult(o) = "True")
                  THEN SendRaise("WhatsAppSendError", "attach_step")
                  ELSE /\ send_pc' = "send_button"
                       /\ UNCHANGED <<send_result, fail_stage>>
  /\ UNCHANGED <<probe_k, attach_exc, chat_banners, batch_before,
                 batch_success_count, batch_pause_after_successes>>
  /\ UNCHANGED notSendVars

\* The send button: wait until visible, pause, click.
\*   absent / click_timeout  TimeoutError, reported as WhatsAppSendError
\*   error                   an Error that is not a timeout propagates
SendButtonOutcomes == {"ok", "absent", "click_timeout", "error"}
SendButtonOps(ops, o) ==
  CASE o = "ok" -> Append(SleepRandom(Append(ops, "wait_send")), "click_send")
    [] o = "click_timeout" -> SleepRandom(Append(ops, "wait_send"))
    [] o = "absent" -> Append(ops, "wait_send_timeout")
    [] OTHER -> Append(ops, "wait_send")

SendButton ==
  /\ send_pc = "send_button"
  /\ \E o \in SendButtonOutcomes :
       /\ ui_ops' = SendButtonOps(ui_ops, o)
       /\ CASE o = "ok" -> send_pc' = "sent" /\ UNCHANGED <<send_result, fail_stage>>
            [] o = "error" -> SendRaise("PlaywrightError", "send_button")
            [] OTHER -> SendRaise("WhatsAppSendError", "send_button")
  /\ UNCHANGED <<probe_k, attach_exc, attach_handler, dump_outcomes,
                 chat_banners, batch_before, batch_success_count,
                 batch_pause_after_successes>>
  /\ UNCHANGED notSendVars

\* The wait for the preview dialog to close: a timeout is only logged.
DialogWait ==
  /\ send_pc = "sent"
  /\ \/ /\ \E shown \in BOOLEAN :
             ui_ops' = IF shown THEN Append(ui_ops, "wait_dialog") ELSE ui_ops
        /\ send_pc' = "count"
        /\ UNCHANGED <<send_result, fail_stage>>
     \/ /\ ui_ops' = Append(ui_ops, "wait_dialog")
        /\ SendRaise("PlaywrightError", "dialog")
  /\ UNCHANGED <<probe_k, attach_exc, attach_handler, dump_outcomes,
                 chat_banners, batch_before, batch_success_count,
                 batch_pause_after_successes>>
  /\ UNCHANGED notSendVars

BatchThrottleDueLate(count, threshold) == count > threshold
\* `if self._batch_success_count < self._batch_pause_after_successes: return`
BatchThrottleDue(count, threshold) == ~(count < threshold)

\* Back in send_pdf_to_phone: count the send, sleep the per-send delay,
\* _maybe_batch_throttle, return SendResult(success=True).
CountAndPace ==
  /\ send_pc = "count"
  /\ IF BatchThrottleDue(batch_success_count + 1, batch_pause_after_successes)
     THEN /\ ui_ops' = ui_ops \o <<"sleep_delay", "sleep_throttle">>
          /\ batch_success_count' = 0
          /\ batch_pause_after_successes' \in BatchPauseMin..BatchPauseMax
     ELSE /\ ui_ops' = Append(ui_ops, "sleep_delay")
          /\ batch_success_count' = batch_success_count + 1
          /\ UNCHANGED batch_pause_after_successes
  /\ send_result' = "ok"
  /\ send_pc' = "done"
  /\ UNCHANGED <<fail_stage, probe_k, attach_exc, attach_handler,
                 dump_outcomes, chat_banners, batch_before>>
  /\ UNCHANGED notSendVars

SendNext ==
  \/ SendValidate
  \/ OpenChat
  \/ WaitForChat
  \/ FocusMessageBox
  \/ OpenAttachMenu
  \/ DirectShort
  \/ ProbeDocument
  \/ FileChooser
  \/ AttachExcept
  \/ SendButton
  \/ DialogWait
  \/ CountAndPace

SpecSend == SendInit /\ [][SendNext]_vars

\* ============================================================ readiness wait
\* WhatsAppBot.start with _ensure_whatsapp_loaded.  Time is counted in tenths
\* of a second since start_time; a poll (the two locator counts) takes up to
\* MaxPollTenths.
max_wait_seconds == 300
TenthsPerSecond == 10
QrSleepMin == 17
QrSleepMax == 26
PollSleepMin == 8
PollSleepMax == 14
MaxPollTenths == 1

\* What a poll can find: the QR prompt (with or without the main UI behind
\* it), the main UI alone, neither, or a Playwright Error from a locator.
PageStates == {"qr", "qr_and_ui", "ready", "neither", "error"}

\* `if time.time() - start_time > max_wait_seconds`
TimedOut(t) == t > max_wait_seconds * TenthsPerSecond

PollVerdictReadyFirst(st) ==
  CASE st \in {"ready", "qr_and_ui"} -> "Ready"
    [] st = "qr" -> "sleep_qr"
    [] OTHER -> "sleep"
\* The try block of the loop: the QR test comes first and ends the iteration
\* with `continue`; then the ready test; `except Error: pass`.
PollVerdict(st) ==
  CASE st \in {"qr", "qr_and_ui"} -> "sleep_qr"
    [] st = "ready" -> "Ready"
    [] OTHER -> "sleep"

ReadyInit ==
  /\ CatalogIdle /\ PaceIdle
  /\ RunInit /\ PhoneIdle /\ UiIdle /\ IndexIdle /\ SaveIdle /\ SendIdle
  /\ ready_pc = "launch"
  /\ elapsed = 0
  /\ poll_began = 0
  /\ page_state = "none"
  /\ ready_result = "none"

\* start(): profile_dir.mkdir, sync_playwright().start(),
\* launch_persistent_context, new_page, set_default_timeout
StartLaunch ==
  /\ ready_pc = "launch"
  /\ \/ ready_pc' = "goto" /\ UNCHANGED ready_result
     \/ /\ ready_result' \in {"OSError", "PlaywrightError"}
        /\ ready_pc' = "done"
  /\ UNCHANGED <<elapsed, poll_began, page_state>>
  /\ UNCHANGED notReadyVars

\* page.goto("https://web.whatsapp.com/"); start_time = time.time()
ReadyGoto ==
  /\ ready_pc = "goto"
  /\ \/ ready_pc' = "poll" /\ UNCHANGED ready_result
     \/ /\ ready_result' \in {"PlaywrightError", "PlaywrightTimeoutError"}
        /\ ready_pc' = "done"
  /\ UNCHANGED <<elapsed, poll_began, page_state>>
  /\ UNCHANGED notReadyVars

\* One iteration of `while True` up to its sleep.
Poll ==
  /\ ready_pc = "poll"
  /\ poll_began' = elapsed
  /\ IF TimedOut(elapsed)
     THEN /\ ready_result' = "WhatsAppNotReadyError"
          /\ ready_pc' = "done"
          /\ UNCHANGED <<elapsed, page_state>>
     ELSE \E st \in PageStates, d \in 0..MaxPollTenths :
          /\ page_state' = st
          /\ elapsed' = elapsed + d
          /\ IF PollVerdict(st) = "Ready"
             THEN ready_result' = "Ready" /\ ready_pc' = "done"
             ELSE ready_pc' = PollVerdict(st) /\ UNCHANGED ready_result
  /\ UNCHANGED notReadyVars

\* time.sleep(random.uniform(1.7, 2.6)); continue
SleepQr ==
  /\ ready_pc = "sleep_qr"
  /\ \E d \in QrSleepMin..QrSleepMax : elapsed' = elapsed + d
  /\ ready_pc' = "poll"
  /\ UNCHANGED <<poll_began, page_state, ready_result>>
  /\ UNCHANGED notReadyVars

\* time.sleep(random.uniform(0.8, 1.4))
SleepPoll ==
  /\ ready_pc = "sleep"
  /\ \E d \in PollSleepMin..PollSleepMax : elapsed' = elapsed + d
  /\ ready_pc' = "poll"
  /\ UNCHANGED <<poll_began, page_state, ready_result>>
  /\ UNCHANGED notReadyVars

ReadyNext ==
  \/ StartLaunch
  \/ ReadyGoto
  \/ Poll
  \/ SleepQr
  \/ SleepPoll

SpecReady == ReadyInit /\ [][ReadyNext]_vars

\* ======================================================= batch pacing in a run
\* _run_job together with the bot's batch counters: every successful
\* bot.send_pdf_to_phone counts the send and calls _maybe_batch_throttle.
\* The catalogs followed: one client, and the smallest that needs a second
\* session.
PacingCatalogs == {1, session_remaining_capacity + 1}

\* the variables of one send_pdf_to_phone call, which the run-level steps do
\* not follow
sendStepVars ==
  <<send_pc, ui_ops, send_result, fail_stage, probe_k, attach_exc,
    attach_handler, dump_outcomes, chat_banners>>
notPacedVars ==
  <<phoneVars, uiVars, indexVars, saveVars, readyVars, catalogVars, sendStepVars>>

PacedLoadClients ==
  /\ LoadClients
  /\ pc' = "index" => clients' \in PacingCatalogs

\* WhatsAppBot.__init__ as called by _run_job, then bot.start
PacedBotStart ==
  /\ BotStartRun
  /\ batch_success_count' = 0
  /\ batch_pause_after_successes' \in BatchPauseMin..BatchPauseMax
  /\ UNCHANGED <<batch_before, paceVars, notPacedVars>>

\* bot.reset_session_counters(): WhatsAppBot defines no such method, the call
\* raises AttributeError and `except Exception: pass` swallows it.
ResetSessionCounters(count) == count

PacedSessionBegin ==
  /\ SessionBeginRun
  /\ batch_success_count' =
       IF OuterLoopCond(client_idx, total, daily_success_sends, sessions_completed)
       THEN ResetSessionCounters(batch_success_count)
       ELSE batch_success_count
  /\ session_start_counts' =
       IF pc' = "prepare"
       THEN Append(session_start_counts, batch_success_count')
       ELSE session_start_counts
  /\ UNCHANGED <<batch_before, batch_pause_after_successes, threshold_before,
                 cooldown_taken, notPacedVars>>

\* bot.send_pdf_to_phone: when it returns, `self._batch_success_count += 1`,
\* the per-send delay and _maybe_batch_throttle have run.
PacedSendClient ==
  /\ SendClientRun
  /\ batch_before' = batch_success_count
  /\ threshold_before' = batch_pause_after_successes
  /\ IF client_idx' = client_idx
     THEN /\ cooldown_taken' = FALSE
          /\ UNCHANGED <<batch_success_count, batch_pause_after_successes>>
     ELSE IF BatchThrottleDue(batch_success_count + 1, batch_pause_after_successes)
     THEN /\ cooldown_taken' = TRUE
          /\ batch_success_count' = 0
          /\ batch_pause_after_successes' \in BatchPauseMin..BatchPauseMax
     ELSE /\ cooldown_taken' = FALSE
          /\ batch_success_count' = batch_success_count + 1
          /\ UNCHANGED batch_pause_after_successes
  /\ UNCHANGED <<session_start_counts, notPacedVars>>

PacingNext ==
  \/ FirstStart
  \/ PacedLoadClients
  \/ IndexPdfs
  \/ PacedBotStart
  \/ PacedSessionBegin
  \/ PrepareClient
  \/ PacedSendClient
  \/ LeaveSessions
  \/ InterSessionBreak
  \/ ReportDone
  \/ CloseContext
  \/ CloseFinally
  \/ Handler

SpecPacing == Init /\ [][PacingNext]_vars

\* ================================================================ UI thread
\* The runs followed beside the UI thread have catalogs of at most
\* MaxUIClients clients.  Such a run ends within its first session, so the
\* inter-session break (which needs more than session_remaining_capacity
\* clients) is not among its steps.
MaxUIClients == 2
UICatalogs == 1..MaxUIClients

\* A click on the Start button; a disabled button does not call its command.
StartRequest == start_btn = "normal" /\ OnStart

IsTerminalEvent(ev) == ev.kind \in {"done", "error"}

\* _poll_ui_queue: get_nowait() until queue.Empty; 'done' and 'error' call
\* _set_running(False).
PollUiQueue ==
  /\ ui_queue # <<>>
  /\ ui_queue' = <<>>
  /\ start_btn' = IF \E i \in DOMAIN ui_queue : IsTerminalEvent(ui_queue[i])
                  THEN "normal" ELSE start_btn
  /\ UNCHANGED <<pc, clients, total, daily_success_sends, sessions_completed,
                 client_idx, session_target, sent_this_session, pending_exc,
                 bot_playwright, bot_context, bot_page, close_exc,
                 start_returned, first_exc, failed_client, attempts, breaks,
                 close_calls, close_result, ctx_close_raised, bot_calls>>
  /\ UNCHANGED notRunVars

UINext ==
  \/ StartRequest
  \/ PollUiQueue
  \/ LoadClients /\ (pc' = "index" => clients' \in UICatalogs)
  \/ IndexPdfs
  \/ BotStart
  \/ SessionBegin
  \/ PrepareClient
  \/ SendClient
  \/ LeaveSessions
  \/ ReportDone
  \/ CloseContext
  \/ CloseFinally
  \/ Handler

SpecUI == Init /\ [][UINext]_vars

\* ------------------------------------------------- the catalog's sent flags
\* A run whose catalog carries each record's sent flag.  load_clients_csv
\* gives every ClientRecord a sent value of "Yes" or "No"; _run_job walks the
\* list by position and reads no field but client_name and the phone digits.
\* Catalogs have at most MaxSentClients records, so a run needs one session
\* and the inter-session break is never waited.
MaxSentClients == 3
SentValues == {"Yes", "No"}
SentCatalogs(n) == [1..n -> SentValues]

SentLoadClients ==
  /\ LoadClientsRun
  /\ pc' = "index" => clients' \in 1..MaxSentClients
  /\ sent_flags' \in SentCatalogs(clients')
  /\ UNCHANGED <<phoneVars, uiVars, indexVars, saveVars, sendVars, readyVars,
                 paceVars>>

SentNext ==
  \/ FirstStart
  \/ SentLoadClients
  \/ IndexPdfs
  \/ BotStart
  \/ SessionBegin
  \/ PrepareClient
  \/ SendClient
  \/ LeaveSessions
  \/ ReportDone
  \/ CloseContext
  \/ CloseFinally
  \/ Handler

SpecSent == Init /\ [][SentNext]_vars

\* ==================================================================== claims
InSession == pc \in {"prepare", "send", "after_inner"}
AfterSessions == pc \in {"report", "close_ctx", "close_finally", "handler", "exited"}
DoneEvents == {i \in DOMAIN ui_queue : ui_queue[i].kind = "done"}
ErrorEvents == {i \in DOMAIN ui_queue : ui_queue[i].kind = "error"}

\* C1: the count of successful sends never exceeds the daily ceiling of 60,
\* and no client is prepared or sent to once the count equals 60.
C1_DailyCapNeverExceeded ==
  /\ daily_success_sends <= 60
  /\ pc \in {"prepare", "send"} => daily_success_sends < 60

\* The ceiling is reached with a client still undelivered, and the run ends.
C1_Witness ==
  /\ pc = "exited"
  /\ daily_success_sends = 60
  /\ client_idx < total
  /\ Len(attempts) = 60

\* C2: a run starts at most 2 sessions, and in each session the successful
\* sends never exceed the session target, which is min(30, 60 - sends before
\* the session, clients undelivered before the session).
C2_SessionTargetBound ==
  /\ sessions_completed <= 2
  /\ sent_this_session <= session_target
  /\ sessions_completed >= 1 =>
       session_target = Min3(30,
                             60 - (daily_success_sends - sent_this_session),
                             total - (client_idx - sent_this_session))

\* A second session whose target is set by the clients left (45 clients:
\* 30, then 15) has sent its whole target.
C2_Witness ==
  /\ sessions_completed = 2
  /\ total = 45
  /\ session_target = 15
  /\ sent_this_session = 15
  /\ pc = "after_inner"

\* C3: a run without any error that has delivered to every client ends with
\* 'All PDFs sent.'; a limit message is reported only with clients left.
C3_AllDeliveredEndsAllSent ==
  (pc = "close_ctx" /\ pending_exc = "none") =>
     /\ Last(ui_queue).kind = "done"
     /\ client_idx = total => Last(ui_queue).text = MsgAllSent
     /\ Last(ui_queue).text \in {MsgDailyLimit, MsgSessionLimit} => client_idx < total

\* C4: an inter-session break is waited only with clients undelivered, the
\* daily ceiling not reached and a further session allowed; every session
\* after the first is preceded by exactly one break; no break follows the
\* last session; a catalog of at most 30 clients never waits one.
C4_BreakOnlyBetweenSessions ==
  /\ (pc = "outer" /\ breaks >= 1) =>
        /\ client_idx < total
        /\ daily_success_sends < 60
        /\ sessions_completed < 2
  /\ pc = "outer" => breaks = sessions_completed
  /\ InSession => breaks = sessions_completed - 1
  /\ (AfterSessions /\ sessions_completed >= 1) => breaks = sessions_completed - 1
  /\ (start_returned /\ total <= 30) => breaks = 0

\* A run of two sessions that waited one break between them has ended
\* without an error.
C4_Witness ==
  /\ pc = "exited"
  /\ first_exc = "none"
  /\ sessions_completed = 2
  /\ breaks = 1
  /\ client_idx = total

\* C5: once start() has returned, close() is invoked exactly once before the
\* worker finishes, however the client loop ends.
C5_CloseExactlyOnce ==
  /\ close_calls <= 1
  /\ (pc = "exited" /\ start_returned) => close_calls = 1
  /\ (pc = "handler" /\ start_returned) => close_calls = 1

\* A send raised in the middle of the catalog, and the worker has finished.
C5_Witness ==
  /\ pc = "exited"
  /\ start_returned
  /\ failed_client = 2
  /\ first_exc = "WhatsAppSendError"
  /\ close_calls = 1

\* C6: close() closes the context before it stops the driver, attempts the
\* driver stop even when the context close raised, and leaves the bot with
\* no context and no page.
C6_CloseOrder ==
  /\ \A i, j \in DOMAIN bot_calls :
        (bot_calls[i] = "context.close" /\ bot_calls[j] = "playwright.stop") => i < j
  /\ close_result # "none" =>
        /\ bot_calls = <<"context.close", "playwright.stop">>
        /\ ~bot_context
        /\ ~bot_page

\* close() has finished after its context close raised.
C6_Witness ==
  /\ close_result = "raised"
  /\ ctx_close_raised
  /\ bot_calls = <<"context.close", "playwright.stop">>
  /\ ~bot_playwright

\* C7: a failure of the context close is absorbed: with the driver stopped,
\* close() returns without raising, and a run that had reported completion
\* ends with that completion as its last event.
C7_ContextCloseFailureAbsorbed ==
  (ctx_close_raised /\ close_result # "none" /\ ~bot_playwright) =>
     /\ close_result = "returned"
     /\ (pc = "exited" /\ DoneEvents # {}) =>
          (Last(ui_queue).kind = "done" /\ ErrorEvents = {})

\* C8: clients are attempted in catalog order, each after all earlier ones
\* were delivered; once a resolution or a send fails, nothing more is
\* attempted, the failed client is not attempted again, and the run ends with
\* an error event.
C8_InOrderAbortOnFailure ==
  /\ \A i \in DOMAIN attempts : attempts[i] = i
  /\ Len(attempts) \in {client_idx, client_idx + 1}
  /\ failed_client # 0 =>
        /\ AfterSessions
        /\ client_idx = failed_client - 1
        /\ Len(attempts) <= failed_client
  /\ (failed_client # 0 /\ pc = "exited") => Last(ui_queue).kind = "error"

\* The third client's send raised after two deliveries; the run has ended.
C8_Witness ==
  /\ pc = "exited"
  /\ total = 5
  /\ failed_client = 3
  /\ attempts = <<1, 2, 3>>
  /\ client_idx = 2
  /\ Last(ui_queue).kind = "error"

TypedErrors ==
  { "CsvValidationError", "CsvInvalidPhoneNumberError", "FileNotFoundError",
    "NotADirectoryError", "PdfAmbiguousMatchError", "PdfNotFoundError",
    "BotInvalidPhoneNumberError", "WhatsAppNotReadyError", "WhatsAppSendError" }

\* C9: a typed error of loading, indexing, resolution or sending ends the
\* run with an error event whose payload is that error's own message; only
\* other errors are reported as a traceback.
C9_TypedErrorsVerbatim ==
  (pc = "exited" /\ first_exc # "none" /\ close_result # "raised") =>
     /\ Last(ui_queue).kind = "error"
     /\ Last(ui_queue).text = first_exc
     /\ Last(ui_queue).detail =
          IF first_exc \in TypedErrors THEN "message" ELSE "traceback"

\* C10: a raw phone string that normalizes normalizes again, from the digits
\* returned, to the same digits.
C10_NormalizeIdempotent ==
  phone_pc = "twice" =>
     /\ phone_twice.status = "ok"
     /\ phone_twice.digits = phone_once.digits

\* C11: index construction ends in PdfAmbiguousMatchError, naming two distinct
\* listed files with the same key, whenever two distinct listed files have
\* stems that normalize to the same non-empty key; when it succeeds, every key
\* of the index belongs to exactly one listed file and every file with a
\* non-empty key is the entry of its key.
KeyCollision ==
  \E a \in idx_pdfs, b \in idx_pdfs :
    a # b /\ NormalizeKey(a) # << >> /\ NormalizeKey(a) = NormalizeKey(b)
C11_AmbiguousOrCompleteIndex ==
  idx_pc = "done" =>
    /\ KeyCollision =>
         /\ idx_result = "PdfAmbiguousMatchError"
         /\ Len(idx_named) = 2
         /\ idx_named[1] # idx_named[2]
         /\ {idx_named[1], idx_named[2]} \subseteq idx_pdfs
         /\ NormalizeKey(idx_named[1]) = NormalizeKey(idx_named[2])
    /\ idx_result = "ok" =>
         /\ \A f \in idx_pdfs :
              NormalizeKey(f) # << >> =>
                /\ NormalizeKey(f) \in DOMAIN idx_index
                /\ idx_index[NormalizeKey(f)] = f
         /\ \A k \in DOMAIN idx_index :
              Cardinality({f \in idx_pdfs : NormalizeKey(f) = k}) = 1
\* two files whose stems differ in case and punctuation only, as "A-B" and
\* "AB" do, end in the error that names them both
C11_Witness ==
  /\ idx_pc = "done"
  /\ idx_pdfs = {<<"A", "-">>, <<"a">>}
  /\ idx_result = "PdfAmbiguousMatchError"
  /\ {idx_named[1], idx_named[2]} = idx_pdfs

\* C12: whenever the process has died during a save, on the replace path or on
\* the fallback path, the destination holds its complete previous contents or
\* the complete new contents.
DestComplete ==
  \/ dest_file.ver = "old"
  \/ dest_file.ver = "new" /\ dest_file.rows = NewLines
C12_CrashLeavesOldOrNew == save_crashed => DestComplete

\* C13: under any interleaving of Start requests, worker steps and queue
\* polls, no worker thread is started while another is alive, so at most one
\* run executes at a time; and a Start request made while the worker is alive,
\* also while it closes the session after its terminal event was shown,
\* changes nothing of the run and starts no worker.
LiveWorkers == other_workers + (IF WorkerAlive THEN 1 ELSE 0)
C13_SingleWorker ==
  /\ [](LiveWorkers <= 1)
  /\ [][(StartRequest /\ WorkerAlive) =>
          (UNCHANGED runVars /\ other_workers' = other_workers)]_vars
C13_Witness ==
  /\ start_refused
  /\ pc \in {"close_ctx", "close_finally"}
  /\ start_btn = "normal"
  /\ ui_queue = <<>>

\* ---------------------------------------------------------------------------
\* Readings of ui_ops used by the claims about one send.
OpsAt(o) == {i \in DOMAIN ui_ops : ui_ops[i] = o}
SendOver == send_pc = "done"
AttachStepSendFailed ==
  SendOver /\ send_result = "WhatsAppSendError" /\ fail_stage = "attach_step"
\* clicks on the attach button made after a probe for the Document option
ReopenClicks ==
  {i \in OpsAt("click_attach") : \E j \in OpsAt("wait_document") : j < i}

\* C14: every click on the attach button, on the Document option and on the
\* send control comes after a randomized pause, with nothing between the pause
\* and the click but waits for the attach button itself (so no other click).
PacedClicks == {"click_attach", "click_document", "click_send"}
C14_PauseBeforeClick ==
  \A i \in DOMAIN ui_ops :
    ui_ops[i] \in PacedClicks =>
      \E j \in 1..(i - 1) :
        /\ ui_ops[j] = "sleep"
        /\ \A k \in (j + 1)..(i - 1) : ui_ops[k] = "wait_attach"
C14_Witness ==
  /\ SendOver /\ send_result = "ok"
  /\ Cardinality(OpsAt("click_attach")) = 2
  /\ OpsAt("wait_attach") # {}
  /\ OpsAt("click_document") # {}
  /\ OpsAt("click_send") # {}

\* C15: the Document option is probed only after the short direct path found
\* no accepting input; whenever the menu path has failed, the direct path was
\* tried a second time before the send failed; and a WhatsAppSendError from
\* the attach step means all three paths were attempted.
MenuPathTried == OpsAt("wait_document") # {}
LongRetryTried == Cardinality(OpsAt("wait_input")) >= 2
C15_AllPathsBeforeSendFailed ==
  /\ MenuPathTried => OpsAt("wait_input") # {} /\ OpsAt("set_input_files") = {}
  /\ SendOver /\ MenuPathTried /\ attach_exc # "none" => LongRetryTried
  /\ AttachStepSendFailed => MenuPathTried /\ LongRetryTried

\* C16: in one attach attempt the menu is re-opened at most once, and every
\* re-open is followed by another probe for the Document option.
C16_ReopenOnceThenProbe ==
  /\ Cardinality(ReopenClicks) <= 1
  /\ SendOver =>
       \A i \in ReopenClicks : \E j \in OpsAt("wait_document") : j > i

\* C17: a WhatsAppSendError from the attach step comes after a diagnostic
\* capture in the same send, and whatever goes wrong inside the capture the
\* except clause goes on as written: RuntimeError and Error end in
\* WhatsAppSendError, TimeoutError goes on to the long direct retry.
C17_CaptureBeforeSendFailed ==
  /\ AttachStepSendFailed => OpsAt("dump") # {}
  /\ SendOver /\ attach_handler \in {"RuntimeError", "Error"} =>
       send_result = "WhatsAppSendError" /\ fail_stage = "attach_step"
  /\ SendOver /\ attach_handler = "TimeoutError" =>
       \E i \in OpsAt("dump") : \E j \in OpsAt("wait_input") : j > i
C17_Witness ==
  /\ AttachStepSendFailed
  /\ attach_handler = "RuntimeError"
  /\ dump_outcomes = <<"all_failed">>

\* C18: the send control is clicked at most once and only after the file was
\* supplied through an input or a chooser in the same send; the batch counter
\* changes, the per-send delay is slept and success is returned only after
\* that click; and when the wait for the send control times out the send ends
\* in WhatsAppSendError with the batch counter unchanged.
C18_SendOnceAfterSupply ==
  /\ Cardinality(OpsAt("click_send")) <= 1
  /\ \A i \in OpsAt("click_send") :
       \E j \in 1..(i - 1) : ui_ops[j] \in FileSupplies
  /\ (send_result = "ok" \/ batch_success_count # batch_before
         \/ OpsAt("sleep_delay") # {}) => OpsAt("click_send") # {}
  /\ \A i \in OpsAt("sleep_delay") : \E j \in OpsAt("click_send") : j < i
  /\ SendOver /\ OpsAt("wait_send_timeout") # {} =>
       /\ send_result = "WhatsAppSendError"
       /\ batch_success_count = batch_before
       /\ OpsAt("click_send") = {}
C18_Witness ==
  /\ SendOver /\ send_result = "ok"
  /\ batch_success_count = batch_before + 1
  /\ OpsAt("chooser_set_files") # {}
  /\ OpsAt("click_send") # {}

\* C19: when the composer does not appear in time the send ends in
\* InvalidPhoneNumberError if the "number invalid" banner is there, else in
\* WhatsAppSendError if the "not on WhatsApp" banner is there, else in
\* WhatsAppNotReadyError; the attach button is never clicked and the batch
\* counter is unchanged.
C19_ChatWaitFailureOrder ==
  SendOver /\ chat_banners # "none" =>
    /\ chat_banners \in {"both", "invalid"} =>
         send_result = "BotInvalidPhoneNumberError"
    /\ chat_banners = "not_on_whatsapp" => send_result = "WhatsAppSendError"
    /\ chat_banners = "neither" => send_result = "WhatsAppNotReadyError"
    /\ OpsAt("click_attach") = {}
    /\ batch_success_count = batch_before
C19_Witness ==
  /\ SendOver
  /\ chat_banners = "both"
  /\ send_result = "BotInvalidPhoneNumberError"

\* C20 as stated: Ready only on a poll that saw no QR prompt and the main UI;
\* a poll that sees the QR prompt goes on polling; NotReady at the first poll
\* that begins more than max_wait_seconds after polling started; and start()
\* ends in Ready or NotReady only.
ReadyOnlyWhenUiAlone == ready_result = "Ready" => page_state = "ready"
QrKeepsPolling ==
  page_state \in {"qr", "qr_and_ui"} =>
    \/ ready_pc \in {"sleep_qr", "poll"}
    \/ ready_pc = "done" /\ ready_result = "WhatsAppNotReadyError"
NotReadyAtFirstLatePoll ==
  /\ ready_result = "WhatsAppNotReadyError" => TimedOut(poll_began)
  /\ (ready_pc \in {"sleep", "sleep_qr"} \/ ready_result = "Ready") =>
       ~TimedOut(poll_began)
C20_StartEndsReadyOrNotReady ==
  /\ ReadyOnlyWhenUiAlone
  /\ QrKeepsPolling
  /\ NotReadyAtFirstLatePoll
  /\ ready_pc = "done" => ready_result \in {"Ready", "WhatsAppNotReadyError"}

\* C20 amended: the same, with the last clause said of the readiness wait:
\* once polling has started, start() ends in Ready or NotReady only; before
\* that it can end in the error of the launch or of the navigation.
PollingStarted == page_state # "none" \/ TimedOut(poll_began)
C20_WaitEndsReadyOrNotReady ==
  /\ ReadyOnlyWhenUiAlone
  /\ QrKeepsPolling
  /\ NotReadyAtFirstLatePoll
  /\ ready_pc = "done" =>
       IF PollingStarted
       THEN ready_result \in {"Ready", "WhatsAppNotReadyError"}
       ELSE ready_result \in {"OSError", "PlaywrightError", "PlaywrightTimeoutError"}
C20_Witness ==
  /\ ready_pc = "done"
  /\ ready_result = "WhatsAppNotReadyError"
  /\ page_state = "qr"
  /\ TimedOut(poll_began)

\* C21: once the bot exists its batch threshold is within 10..15 and, between
\* sends, its count of successful sends since the last cooldown is at least 0
\* and below the threshold; a send that returned ended with the cooldown
\* exactly when the count reached the threshold it began with, and then the
\* count is 0 and the threshold was drawn anew; otherwise the count went up by
\* one and the threshold stayed.
BotConstructed == pc \notin {"idle", "load", "index", "bot_start"}
LastSendReturned == attempts # << >> /\ first_exc = "none"
C21_BatchCooldown ==
  /\ BotConstructed =>
       /\ batch_pause_after_successes \in 10..15
       /\ 0 <= batch_success_count
       /\ batch_success_count < batch_pause_after_successes
  /\ LastSendReturned =>
       /\ cooldown_taken <=> (batch_before + 1 = threshold_before)
       /\ cooldown_taken => batch_success_count = 0
       /\ ~cooldown_taken =>
            /\ batch_success_count = batch_before + 1
            /\ batch_pause_after_successes = threshold_before
C21_Witness ==
  /\ LastSendReturned
  /\ cooldown_taken
  /\ threshold_before = 10
  /\ batch_pause_after_successes = 15
  /\ batch_success_count = 0
  /\ Len(attempts) = 25

\* C22: when the first send of a session begins, the bot's count of
\* successful sends since the last cooldown is 0.
C22_SessionStartsWithZeroCount ==
  \A k \in DOMAIN session_start_counts : session_start_counts[k] = 0

\* C23: the k-th pre-send progress event has current = k-1 and is in the queue
\* before the k-th send is invoked; the k-th post-send progress event has
\* current = k and there are exactly as many of them as sends that returned;
\* and the current values of the progress events never decrease.
IsProgress(ev) == ev.kind = "progress"
IsPreSend(ev) == ev.kind = "progress" /\ ev.text = "Preparing"
IsPostSend(ev) == ev.kind = "progress" /\ ev.text = "Sent to"
ProgressEvents == SelectSeq(ui_queue, IsProgress)
PreSendEvents == SelectSeq(ui_queue, IsPreSend)
PostSendEvents == SelectSeq(ui_queue, IsPostSend)
SendFailedLast == failed_client # 0 /\ Len(attempts) = failed_client
SuccessfulSends == Len(attempts) - (IF SendFailedLast THEN 1 ELSE 0)
C23_ProgressPairs ==
  LET pre  == PreSendEvents
      post == PostSendEvents
      prog == ProgressEvents
  IN /\ \A k \in DOMAIN pre : pre[k].cur = k - 1
     /\ \A k \in DOMAIN attempts : attempts[k] = k
     /\ Len(attempts) <= Len(pre)
     /\ pc = "send" => Len(pre) = Len(attempts) + 1
     /\ \A k \in DOMAIN post : post[k].cur = k
     /\ Len(post) = SuccessfulSends
     /\ \A k \in 1..(Len(prog) - 1) : prog[k].cur <= prog[k + 1].cur
\* three clients, all delivered: three progress pairs, no inter-session break
C23_Witness ==
  /\ pc = "exited"
  /\ total = 3
  /\ Len(PreSendEvents) = 3
  /\ Len(PostSendEvents) = 3
  /\ breaks = 0
  /\ \E i \in DoneEvents : ui_queue[i].text = MsgAllSent

\* C24: when the worker has exited, the run has enqueued exactly one terminal
\* event, a 'done' or an 'error' but not both and not two of a kind, and that
\* event is the last one in the queue.
TerminalEvents == DoneEvents \cup ErrorEvents
C24_ExactlyOneTerminalEventLast ==
  pc = "exited" =>
     /\ Cardinality(TerminalEvents) = 1
     /\ TerminalEvents = {Len(ui_queue)}

\* C25: when the worker has exited, the bot holds no browser context and no
\* automation driver: whatever start() launched has been closed and stopped,
\* also when start() raised after the launch.
C25_NothingLeftOpenAtExit ==
  pc = "exited" =>
     /\ ~bot_context
     /\ ~bot_playwright

\* C26: with a daily ceiling of 60, 2 sessions and 30 sends per session, no
\* run reports the session-limit completion message: once the second session
\* has ended without error, every client is delivered or the daily ceiling is
\* reached, and a run without errors ends with the all-sent or the
\* daily-limit message.
SessionsUsedUp == sessions_completed >= max_sessions_per_day
C26_NoSessionLimitMessage ==
  /\ \A i \in DoneEvents : ui_queue[i].text \in {MsgAllSent, MsgDailyLimit}
  /\ (pc \in {"after_inner", "report"} /\ SessionsUsedUp) =>
        \/ client_idx = total
        \/ daily_success_sends >= daily_max_sends
  /\ (pc = "exited" /\ first_exc = "none") =>
        /\ Last(ui_queue).kind = "done"
        /\ Last(ui_queue).text \in {MsgAllSent, MsgDailyLimit}
\* 45 clients delivered in two sessions, the second one not full
C26_Witness ==
  /\ pc = "exited"
  /\ first_exc = "none"
  /\ sessions_completed = 2
  /\ total = 45
  /\ client_idx = 45
  /\ daily_success_sends = 45
  /\ Last(ui_queue).text = MsgAllSent

\* C27: a started run terminates: from the moment the worker is started it
\* leads to the worker having exited with a terminal event in the queue; and
\* at every moment at most 2 sessions have been begun and at most
\* min(60, number of clients) sends have been attempted.
RunWithinBounds ==
  /\ sessions_completed <= max_sessions_per_day
  /\ Len(attempts) <= Min2(daily_max_sends, clients)
RunOver == pc = "exited" /\ TerminalEvents # {}
C27_RunTerminates ==
  /\ []RunWithinBounds
  /\ (pc = "load") ~> RunOver
\* the longest run: 61 clients, two full sessions, 60 sends, then the end
C27_Witness ==
  /\ RunOver
  /\ clients = 61
  /\ sessions_completed = 2
  /\ Len(attempts) = 60
  /\ breaks = 1

\* C28: the send protocol is invoked only for clients whose loaded sent flag
\* is No, and only those clients are counted as remaining by the session
\* target.
UnsentFrom(idx) == {k \in (idx + 1)..total : sent_flags[k] = "No"}
C28_OnlyUnsentClientsSent ==
  /\ \A k \in DOMAIN attempts : sent_flags[attempts[k]] = "No"
  /\ pc = "prepare" =>
       session_target <= sent_this_session + Cardinality(UnsentFrom(client_idx))

====
